---- MODULE Spec2Model ----
(***************************************************************************)
(* Hornetsecurity CSV import (csv_import_hornetsecurity_settings.py).      *)
(*                                                                         *)
(* process_csv_import is one whitelisted, synchronous request handler: it  *)
(* is one action.  Its loops are folds over the rows, the aggregate keys   *)
(* and the customers; each loop body is an operator named after the code   *)
(* it models.                                                              *)
(*                                                                         *)
(* Text is a tuple of one-character strings, so that strip(), upper() and  *)
(* the f-string keys are computed and not assumed.  A field that           *)
(* csv.DictReader fills with None (short line) is the value None.          *)
(* Numbers are kept in tenths (4,5 is 45): the numerals of the model have  *)
(* at most one decimal, and sums of them are exact.                        *)
(***************************************************************************)
EXTENDS Integers, Sequences, FiniteSets, TLC

\* ------------------------------------------------------------------ bounds
MaxRows == 3
MaxImports == 2

\* -------------------------------------------------------------------- text
None == <<"None">>
Whitespace == {" ", "\t"}

RECURSIVE LStrip(_)
LStrip(s) ==
    IF s # <<>> /\ Head(s) \in Whitespace THEN LStrip(Tail(s)) ELSE s

RECURSIVE RStrip(_)
RStrip(s) ==
    IF s # <<>> /\ s[Len(s)] \in Whitespace
    THEN RStrip(SubSeq(s, 1, Len(s) - 1)) ELSE s

\* str.strip()
Strip(s) == RStrip(LStrip(s))

LowerToUpper ==
    ("o" :> "O") @@ ("t" :> "T") @@ ("h" :> "H") @@ ("e" :> "E") @@ ("r" :> "R")

\* str.upper(), on the letters of the model's alphabet
Upper(s) ==
    [k \in DOMAIN s |->
        IF s[k] \in DOMAIN LowerToUpper THEN LowerToUpper[s[k]] ELSE s[k]]

SentinelOther == <<"O", "T", "H", "E", "R">>

\* ----------------------------------------------------------------- numbers
Scale == 10

DigitVal ==
    ("0" :> 0) @@ ("1" :> 1) @@ ("2" :> 2) @@ ("3" :> 3) @@ ("4" :> 4) @@
    ("5" :> 5) @@ ("6" :> 6) @@ ("7" :> 7) @@ ("8" :> 8) @@ ("9" :> 9)

IsDigits(s) == s # <<>> /\ \A k \in DOMAIN s : s[k] \in DOMAIN DigitVal

RECURSIVE DigitsVal(_)
DigitsVal(s) ==
    IF s = <<>> THEN 0
    ELSE 10 * DigitsVal(SubSeq(s, 1, Len(s) - 1)) + DigitVal[s[Len(s)]]

DotAt(s) == IF \E k \in DOMAIN s : s[k] = "."
            THEN CHOOSE k \in DOMAIN s : s[k] = "." /\ \A j \in 1..(k-1) : s[j] # "."
            ELSE 0

\* float() of an unsigned numeral: digits, or digits '.' one digit
UnsignedOk(s) ==
    LET d == DotAt(s) IN
    IF d = 0 THEN IsDigits(s)
    ELSE /\ IsDigits(SubSeq(s, 1, d - 1))
         /\ Len(s) = d + 1
         /\ s[d + 1] \in DOMAIN DigitVal

UnsignedVal(s) ==
    LET d == DotAt(s) IN
    IF d = 0 THEN Scale * DigitsVal(s)
    ELSE Scale * DigitsVal(SubSeq(s, 1, d - 1)) + DigitVal[s[d + 1]]

\* frappe.utils.flt on a string: float(s), and 0.0 when float() raises
flt(s) ==
    LET t == Strip(s)
        neg == t # <<>> /\ Head(t) = "-"
        u == IF t # <<>> /\ Head(t) \in {"-", "+"} THEN Tail(t) ELSE t
    IN  IF UnsignedOk(u) THEN (IF neg THEN 0 - UnsignedVal(u) ELSE UnsignedVal(u))
        ELSE 0

\* str.replace(',', '.')
ReplaceComma(s) == [k \in DOMAIN s |-> IF s[k] = "," THEN "." ELSE s[k]]

convert_german_number(number_str) ==
    IF number_str = None \/ number_str = <<>> THEN 0
    ELSE flt(ReplaceComma(number_str))

\* variant: the signed count
Abs_Signed(n) == n

\* abs()
Abs(n) == IF n < 0 THEN 0 - n ELSE n

\* ------------------------------------------------------------ error list
\* One entry of the list errors: the text of the f-string and the values it
\* interpolates (0 and <<>> where the text has no such value).
Err(msg, line, customer, product) ==
    [msg |-> msg, line |-> line, customer |-> customer, product |-> product]

MsgMissingCustomer == "Missing Customer Reference Number in line"
MsgMissingProductCode == "Missing Product Code in line"
MsgMissingProductName == "Missing Product name for OTHER product in line"
MsgRowException == "Error processing row"
MsgCurrencyMismatch == "Currency mismatch for"
MsgAggregateException == "Error aggregating data for"
MsgCustomerNotFound == "Customer not found for reference number:"
MsgNoValidItems == "No valid items found for customer"
MsgNoArtikelgruppe == "Artikelgruppe not configured for OTHER items"
MsgOtherNameMissing == "Product name missing for OTHER item"
MsgItemCreateFailed == "Failed to create item for OTHER product"
MsgItemNotFound == "Item not found for product code:"
MsgInvalidQuantity == "Invalid quantity"
MsgNoTaxAccount == "No tax account configured for customer"

\* --------------------------------------------- rows -> customer_product_data
\* customer_product_data is a dict in insertion order: a sequence of entries
\* [key, customer_ref_nr, product_code, currency, rows].
KeyIndex(cpd, key) ==
    IF \E k \in DOMAIN cpd : cpd[k].key = key
    THEN CHOOSE k \in DOMAIN cpd : cpd[k].key = key
    ELSE 0

\* key_identifier of a row whose product code is product_code
KeyIdentifier(product_code, product_name) ==
    IF Upper(product_code) = SentinelOther
    THEN <<"O", "T", "H", "E", "R", "_">> \o product_name
    ELSE product_code

\* f"{customer_ref_nr}|{key_identifier}"
AggregateKey(customer_ref_nr, key_identifier) ==
    customer_ref_nr \o <<"|">> \o key_identifier

\* variant: every row opens an entry of its own
AddToGroup_NoMerge(cpd, key, customer_ref_nr, product_code, currency, row) ==
    Append(cpd, [key |-> key, customer_ref_nr |-> customer_ref_nr,
                 product_code |-> product_code, currency |-> currency,
                 rows |-> <<row>>])

\* customer_product_data after the row has been filed under key
AddToGroup(cpd, key, customer_ref_nr, product_code, currency, row) ==
    LET k == KeyIndex(cpd, key)
        fresh == [key |-> key, customer_ref_nr |-> customer_ref_nr,
                  product_code |-> product_code, currency |-> currency,
                  rows |-> <<row>>]
    IN  IF k = 0 THEN Append(cpd, fresh)
        ELSE [cpd EXCEPT ![k].rows = Append(@, row)]

\* variant: the 1-based row number, without the header line
LineNumber_NoHeader(i) == i + 1

\* the line of the file that row i (0-based) is, after the header line
LineNumber(i) == i + 2

\* the body of the loop over enumerate(rows); i is the 0-based index
ProcessRow(st, i, row) ==
    IF None \in {row.CustomerReferenceNumber, row.ProductCode,
                 row.LicensesCount, row.Currency}
    THEN [st EXCEPT !.errors = Append(@, Err(MsgRowException, LineNumber(i), <<>>, <<>>))]
    ELSE
    LET customer_ref_nr == Strip(row.CustomerReferenceNumber)
        product_code == Strip(row.ProductCode)
        licenses_count_str == Strip(row.LicensesCount)
        currency == Strip(row.Currency)
        licenses_count == convert_german_number(licenses_count_str)
        counted == [st EXCEPT !.total_licenses_before = @ + Abs(licenses_count)]
        isOther == Upper(product_code) = SentinelOther
        product_name == Strip(row.Product)
        key_identifier == KeyIdentifier(product_code, product_name)
        key == AggregateKey(customer_ref_nr, key_identifier)
        k == KeyIndex(st.customer_product_data, key)
        mismatch == k # 0 /\ st.customer_product_data[k].currency # currency
    IN  IF customer_ref_nr = <<>>
        THEN [st EXCEPT !.errors = Append(@, Err(MsgMissingCustomer, LineNumber(i), <<>>, <<>>))]
        ELSE IF product_code = <<>>
        THEN [st EXCEPT !.errors = Append(@, Err(MsgMissingProductCode, LineNumber(i), <<>>, <<>>))]
        ELSE IF isOther /\ row.Product = None
        THEN [counted EXCEPT !.errors = Append(@, Err(MsgRowException, LineNumber(i), <<>>, <<>>))]
        ELSE IF isOther /\ product_name = <<>>
        THEN [counted EXCEPT !.errors = Append(@, Err(MsgMissingProductName, LineNumber(i), <<>>, <<>>))]
        ELSE [counted EXCEPT
                !.errors = IF mismatch
                           THEN Append(@, Err(MsgCurrencyMismatch, 0, customer_ref_nr, key_identifier))
                           ELSE @,
                !.customer_product_data =
                    AddToGroup(@, key, customer_ref_nr, product_code, currency, row)]

RECURSIVE RowLoop(_, _, _)
RowLoop(st, rs, i) ==
    IF i >= Len(rs) THEN st
    ELSE RowLoop(ProcessRow(st, i, rs[i + 1]), rs, i + 1)

\* ------------------------------------- customer_product_data -> customer_invoices
\* variant: the amount of the last row replaces the amount so far
AggregateRow_LastAmount(acc, customer_ref_nr, product_code, row) ==
    LET qty == convert_german_number(row.LicensesCount)
        price_per_license == convert_german_number(row.CustomerPricePerLicense)
        customer_total == convert_german_number(row.CustomerTotal)
        summed == [acc EXCEPT !.total_qty = @ + qty,
                              !.total_amount = customer_total,
                              !.rate = price_per_license]
    IN  IF row.Product = None
        THEN [summed EXCEPT !.errors =
                Append(@, Err(MsgAggregateException, 0, customer_ref_nr, product_code))]
        ELSE [summed EXCEPT !.product_name = Strip(row.Product)]

\* variant: the rate of the first row is kept
AggregateRow_FirstRate(acc, customer_ref_nr, product_code, row) ==
    LET qty == convert_german_number(row.LicensesCount)
        price_per_license == convert_german_number(row.CustomerPricePerLicense)
        customer_total == convert_german_number(row.CustomerTotal)
        summed == [acc EXCEPT !.total_qty = @ + qty,
                              !.total_amount = @ + customer_total,
                              !.rate = IF acc.product_name = <<>>
                                       THEN price_per_license ELSE @]
    IN  IF row.Product = None
        THEN [summed EXCEPT !.errors =
                Append(@, Err(MsgAggregateException, 0, customer_ref_nr, product_code))]
        ELSE [summed EXCEPT !.product_name = Strip(row.Product)]

\* the body of the loop over data['rows']: acc is (total_qty, total_amount,
\* rate, product_name, errors)
AggregateRow(acc, customer_ref_nr, product_code, row) ==
    LET qty == convert_german_number(row.LicensesCount)
        price_per_license == convert_german_number(row.CustomerPricePerLicense)
        customer_total == convert_german_number(row.CustomerTotal)
        summed == [acc EXCEPT !.total_qty = @ + qty,
                              !.total_amount = @ + customer_total,
                              !.rate = price_per_license]
    IN  IF row.Product = None
        THEN [summed EXCEPT !.errors =
                Append(@, Err(MsgAggregateException, 0, customer_ref_nr, product_code))]
        ELSE [summed EXCEPT !.product_name = Strip(row.Product)]

RECURSIVE AggregateRows(_, _, _, _)
AggregateRows(acc, customer_ref_nr, product_code, rs) ==
    IF rs = <<>> THEN acc
    ELSE AggregateRows(AggregateRow(acc, customer_ref_nr, product_code, Head(rs)),
                       customer_ref_nr, product_code, Tail(rs))

\* customer_invoices is a dict in insertion order: a sequence of entries
\* [customer_ref_nr, items]
InvoiceIndex(ci, customer_ref_nr) ==
    IF \E k \in DOMAIN ci : ci[k].customer_ref_nr = customer_ref_nr
    THEN CHOOSE k \in DOMAIN ci : ci[k].customer_ref_nr = customer_ref_nr
    ELSE 0

\* variant: the aggregate is kept whatever its quantity
AggregateGroup_KeepAll(st, data) ==
    LET ci0 == IF InvoiceIndex(st.customer_invoices, data.customer_ref_nr) = 0
               THEN Append(st.customer_invoices,
                           [customer_ref_nr |-> data.customer_ref_nr, items |-> <<>>])
               ELSE st.customer_invoices
        k == InvoiceIndex(ci0, data.customer_ref_nr)
        acc == AggregateRows([total_qty |-> 0, total_amount |-> 0, rate |-> 0,
                              product_name |-> <<>>, errors |-> st.errors],
                             data.customer_ref_nr, data.product_code, data.rows)
        line == [product_code |-> data.product_code,
                 product_name |-> acc.product_name,
                 currency |-> data.currency,
                 total_qty |-> acc.total_qty,
                 rate |-> acc.rate,
                 total_amount |-> acc.total_amount]
    IN  [st EXCEPT !.errors = acc.errors,
                   !.customer_invoices = [ci0 EXCEPT ![k].items = Append(@, line)]]

\* variant: every key opens an entry of its own
AggregateGroup_PerKey(st, data) ==
    LET ci0 == Append(st.customer_invoices,
                      [customer_ref_nr |-> data.customer_ref_nr, items |-> <<>>])
        k == Len(ci0)
        acc == AggregateRows([total_qty |-> 0, total_amount |-> 0, rate |-> 0,
                              product_name |-> <<>>, errors |-> st.errors],
                             data.customer_ref_nr, data.product_code, data.rows)
        line == [product_code |-> data.product_code,
                 product_name |-> acc.product_name,
                 currency |-> data.currency,
                 total_qty |-> acc.total_qty,
                 rate |-> acc.rate,
                 total_amount |-> acc.total_amount]
    IN  [st EXCEPT !.errors = acc.errors,
                   !.customer_invoices =
                       IF acc.total_qty > 0
                       THEN [ci0 EXCEPT ![k].items = Append(@, line)]
                       ELSE ci0]

\* the body of the loop over customer_product_data.items()
AggregateGroup(st, data) ==
    LET ci0 == IF InvoiceIndex(st.customer_invoices, data.customer_ref_nr) = 0
               THEN Append(st.customer_invoices,
                           [customer_ref_nr |-> data.customer_ref_nr, items |-> <<>>])
               ELSE st.customer_invoices
        k == InvoiceIndex(ci0, data.customer_ref_nr)
        acc == AggregateRows([total_qty |-> 0, total_amount |-> 0, rate |-> 0,
                              product_name |-> <<>>, errors |-> st.errors],
                             data.customer_ref_nr, data.product_code, data.rows)
        line == [product_code |-> data.product_code,
                 product_name |-> acc.product_name,
                 currency |-> data.currency,
                 total_qty |-> acc.total_qty,
                 rate |-> acc.rate,
                 total_amount |-> acc.total_amount]
    IN  [st EXCEPT !.errors = acc.errors,
                   !.customer_invoices =
                       IF acc.total_qty > 0
                       THEN [ci0 EXCEPT ![k].items = Append(@, line)]
                       ELSE ci0]

RECURSIVE AggregateLoop(_, _)
AggregateLoop(st, cpd) ==
    IF cpd = <<>> THEN st
    ELSE AggregateLoop(AggregateGroup(st, Head(cpd)), Tail(cpd))

\* ------------------------------------------------------------ currencies
EUR == <<"E", "U", "R">>
USD == <<"U", "S", "D">>
CHF == <<"C", "H", "F">>

\* get_currency_mapping(), on the currencies of the model's alphabet
CurrencyMap ==
    (EUR :> EUR) @@ (USD :> USD) @@ (CHF :> CHF) @@
    (<<"E", "u", "r", "o">> :> EUR)

\* get_company_default_currency(): the company's default currency
CompanyDefaultCurrency == EUR

\* get_invoice_currency(csv_currency); known is the Currency table
get_invoice_currency(csv_currency, known) ==
    LET c == IF csv_currency = None THEN <<>> ELSE Strip(csv_currency) IN
    IF c \in DOMAIN CurrencyMap THEN CurrencyMap[c]
    ELSE IF c \in known THEN c
    ELSE CompanyDefaultCurrency

\* today(), as a day number
Today == 2

\* frappe.get_all('Currency Exchange', filters={from_currency, to_currency,
\* date, for_selling: 1}); exchange is the Currency Exchange table
RatesOfDate(exchange, from_currency, to_currency, exchange_date) ==
    SelectSeq(exchange, LAMBDA r : /\ r.from_currency = from_currency
                                   /\ r.to_currency = to_currency
                                   /\ r.date = exchange_date
                                   /\ r.for_selling = 1)

\* the same without the date filter
RatesOfPair(exchange, from_currency, to_currency) ==
    SelectSeq(exchange, LAMBDA r : /\ r.from_currency = from_currency
                                   /\ r.to_currency = to_currency
                                   /\ r.for_selling = 1)

\* order_by='date desc', limit=1 on a non-empty result
LatestRate(rates) ==
    rates[CHOOSE k \in DOMAIN rates : \A j \in DOMAIN rates : rates[j].date <= rates[k].date]

\* variant: without the fallback to the latest rate of another date
get_conversion_rate_NoFallback(from_currency, to_currency, exchange_date, exchange) ==
    IF from_currency = to_currency THEN Scale
    ELSE IF RatesOfDate(exchange, from_currency, to_currency, exchange_date) # <<>>
    THEN RatesOfDate(exchange, from_currency, to_currency, exchange_date)[1].exchange_rate
    ELSE Scale

\* rates are in tenths: 1.0 is Scale
get_conversion_rate(from_currency, to_currency, exchange_date, exchange) ==
    IF from_currency = to_currency THEN Scale
    ELSE IF RatesOfDate(exchange, from_currency, to_currency, exchange_date) # <<>>
    THEN RatesOfDate(exchange, from_currency, to_currency, exchange_date)[1].exchange_rate
    ELSE IF RatesOfPair(exchange, from_currency, to_currency) # <<>>
    THEN LatestRate(RatesOfPair(exchange, from_currency, to_currency)).exchange_rate
    ELSE Scale

\* ------------------------------------------------------------------ tax rate
DefaultTaxRate == 19 * Scale

RECURSIVE DigitRun(_, _)
\* length of the longest run of digits of s that starts at position k
DigitRun(s, k) ==
    IF k <= Len(s) /\ s[k] \in DOMAIN DigitVal THEN 1 + DigitRun(s, k + 1) ELSE 0

RECURSIVE SpaceRun(_, _)
SpaceRun(s, k) ==
    IF k <= Len(s) /\ s[k] \in Whitespace THEN 1 + SpaceRun(s, k + 1) ELSE 0

\* position after \s*% from position k, or 0
PercentAfter(s, k) ==
    LET j == k + SpaceRun(s, k) IN
    IF j <= Len(s) /\ s[j] = "%" THEN j + 1 ELSE 0

\* the text matched by group 1 of (\d+(?:\.\d+)?)\s*% at position k, or None
RateMatchAt(s, k) ==
    LET d1 == DigitRun(s, k)
        d2 == IF k + d1 <= Len(s) /\ s[k + d1] = "." THEN DigitRun(s, k + d1 + 1) ELSE 0
    IN  IF d1 = 0 THEN None
        ELSE IF d2 > 0 /\ PercentAfter(s, k + d1 + 1 + d2) # 0
        THEN SubSeq(s, k, k + d1 + d2)
        ELSE IF PercentAfter(s, k + d1) # 0
        THEN SubSeq(s, k, k + d1 - 1)
        ELSE None

\* re.search(r'(\d+(?:\.\d+)?)\s*%', account_name).group(1), or None
RateMatch(account_name) ==
    IF \E k \in DOMAIN account_name : RateMatchAt(account_name, k) # None
    THEN RateMatchAt(account_name,
            CHOOSE k \in DOMAIN account_name :
                /\ RateMatchAt(account_name, k) # None
                /\ \A j \in 1..(k - 1) : RateMatchAt(account_name, j) = None)
    ELSE None

\* an unset or absent field of an Account is NoValue
NoValue == -1
Truthy(v) == v # NoValue /\ v # 0

get_dynamic_tax_rate(settings, accounts) ==
    IF settings.tax_account = None THEN DefaultTaxRate
    ELSE IF ~ \E k \in DOMAIN accounts : accounts[k].name = settings.tax_account
    THEN DefaultTaxRate
    ELSE LET account == accounts[CHOOSE k \in DOMAIN accounts :
                                     accounts[k].name = settings.tax_account]
         IN  IF Truthy(account.tax_rate) THEN account.tax_rate
             ELSE IF Truthy(account.rate) THEN account.rate
             ELSE IF RateMatch(account.account_name) # None
             THEN flt(RateMatch(account.account_name))
             ELSE DefaultTaxRate

\* ----------------------------------------------------------- item resolver
\* The tables of the document store are sequences of records: an insert
\* appends a record, a get_all returns the matching records in table order.
\* frappe.get_all('Item', filters={'item_code': item_code})
ItemsByCode(items, item_code) ==
    SelectSeq(items, LAMBDA it : it.item_code = item_code)

\* frappe.get_all('Item', filters={'custom_externe_artikelnummer': product_code})
ItemsByExternalNumber(items, product_code) ==
    SelectSeq(items, LAMBDA it : it.custom_externe_artikelnummer = product_code)

\* frappe.get_all('Customer', filters={'custom_interne_kundennummer': customer_ref_nr})
CustomersByReference(customers, customer_ref_nr) ==
    SelectSeq(customers, LAMBDA c : c.custom_interne_kundennummer = customer_ref_nr)

\* variant: the item is inserted without the look-up of an existing one
create_item_for_other_product_NoLookup(product_name, item_group, items_log, items) ==
    [name |-> product_name,
     created_items_log |-> Append(items_log,
                                  [msg |-> "Created new item", item |-> product_name]),
     items |-> Append(items, [name |-> product_name,
                              item_code |-> product_name,
                              item_name |-> product_name,
                              description |-> <<>>,
                              item_group |-> item_group,
                              custom_externe_artikelnummer |-> SentinelOther])]

create_item_for_other_product(product_name, item_group, items_log, items) ==
    LET item_code == product_name
        existing_item == ItemsByCode(items, item_code)
        item_doc == [name |-> product_name,
                     item_code |-> product_name,
                     item_name |-> product_name,
                     description |-> <<>>,
                     item_group |-> item_group,
                     custom_externe_artikelnummer |-> SentinelOther]
    IN  IF existing_item # <<>>
        THEN [name |-> existing_item[1].name,
              created_items_log |-> Append(items_log,
                                           [msg |-> "already exists", item |-> item_code]),
              items |-> items]
        ELSE [name |-> item_doc.name,
              created_items_log |-> Append(items_log,
                                           [msg |-> "Created new item", item |-> product_name]),
              items |-> Append(items, item_doc)]

\* variant: a product code without catalog item drops the lines resolved so far
ResolveItem_DropOnMissing(st, customer_ref_nr, item_data, settings) ==
    LET product_code == item_data.product_code
        product_name == item_data.product_name
        made == create_item_for_other_product(product_name, settings.artikelgruppe,
                                              st.created_items_log, st.items)
        item == ItemsByExternalNumber(st.items, product_code)
        enrich(code, nm, descr) ==
            [product_code |-> item_data.product_code,
             product_name |-> item_data.product_name,
             currency |-> item_data.currency,
             total_qty |-> item_data.total_qty,
             rate |-> item_data.rate,
             total_amount |-> item_data.total_amount,
             item_code |-> code, item_name |-> nm, description |-> descr]
        checked(s, resolved) ==
            IF resolved.total_qty <= 0
            THEN [s EXCEPT !.errors =
                    Append(@, Err(MsgInvalidQuantity, 0, customer_ref_nr, product_code))]
            ELSE [s EXCEPT !.valid_items = Append(@, resolved)]
    IN  IF Upper(product_code) = SentinelOther
        THEN IF settings.artikelgruppe = None
             THEN [st EXCEPT !.errors =
                     Append(@, Err(MsgNoArtikelgruppe, 0, customer_ref_nr, <<>>))]
             ELSE IF product_name = <<>>
             THEN [st EXCEPT !.errors =
                     Append(@, Err(MsgOtherNameMissing, 0, customer_ref_nr, <<>>))]
             ELSE checked([st EXCEPT !.created_items_log = made.created_items_log,
                                     !.items = made.items],
                          enrich(made.name, product_name, product_name))
        ELSE IF item = <<>>
             THEN [st EXCEPT !.errors =
                     Append(@, Err(MsgItemNotFound, 0, customer_ref_nr, product_code)),
                             !.valid_items = <<>>]
             ELSE checked(st, enrich(item[1].name, item[1].item_name, item[1].description))

\* the body of the loop over items_data; st is (valid_items, errors,
\* created_items_log, items)
ResolveItem(st, customer_ref_nr, item_data, settings) ==
    LET product_code == item_data.product_code
        product_name == item_data.product_name
        made == create_item_for_other_product(product_name, settings.artikelgruppe,
                                              st.created_items_log, st.items)
        item == ItemsByExternalNumber(st.items, product_code)
        enrich(code, nm, descr) ==
            [product_code |-> item_data.product_code,
             product_name |-> item_data.product_name,
             currency |-> item_data.currency,
             total_qty |-> item_data.total_qty,
             rate |-> item_data.rate,
             total_amount |-> item_data.total_amount,
             item_code |-> code, item_name |-> nm, description |-> descr]
        checked(s, resolved) ==
            IF resolved.total_qty <= 0
            THEN [s EXCEPT !.errors =
                    Append(@, Err(MsgInvalidQuantity, 0, customer_ref_nr, product_code))]
            ELSE [s EXCEPT !.valid_items = Append(@, resolved)]
    IN  IF Upper(product_code) = SentinelOther
        THEN IF settings.artikelgruppe = None
             THEN [st EXCEPT !.errors =
                     Append(@, Err(MsgNoArtikelgruppe, 0, customer_ref_nr, <<>>))]
             ELSE IF product_name = <<>>
             THEN [st EXCEPT !.errors =
                     Append(@, Err(MsgOtherNameMissing, 0, customer_ref_nr, <<>>))]
             ELSE checked([st EXCEPT !.created_items_log = made.created_items_log,
                                     !.items = made.items],
                          enrich(made.name, product_name, product_name))
        ELSE IF item = <<>>
             THEN [st EXCEPT !.errors =
                     Append(@, Err(MsgItemNotFound, 0, customer_ref_nr, product_code))]
             ELSE checked(st, enrich(item[1].name, item[1].item_name, item[1].description))

RECURSIVE ResolveItems(_, _, _, _)
ResolveItems(st, customer_ref_nr, items_data, settings) ==
    IF items_data = <<>> THEN st
    ELSE ResolveItems(ResolveItem(st, customer_ref_nr, Head(items_data), settings),
                      customer_ref_nr, Tail(items_data), settings)

validate_and_process_items_hornetsecurity(customer_ref_nr, items_data, settings, errs, items_log, items) ==
    ResolveItems([valid_items |-> <<>>, errors |-> errs,
                  created_items_log |-> items_log, items |-> items],
                 customer_ref_nr, items_data, settings)

\* -------------------------------------------------------- invoice assembler
get_customer_discount(customer_name, discount_table) ==
    LET hits == SelectSeq(discount_table,
                    LAMBDA r : r.kundenname # None /\ r.kundenname # <<>>
                               /\ Strip(r.kundenname) = Strip(customer_name))
    IN  IF hits # <<>> THEN hits[1].rabatt_wert_in_prozent ELSE 0

RECURSIVE SumAmount(_)
SumAmount(lines) ==
    IF lines = <<>> THEN 0 ELSE Head(lines).amount + SumAmount(Tail(lines))

\* variant: every line counts as one license
SumQty_CountLines(lines) == Len(lines)

RECURSIVE SumQty(_)
\* the sum of flt(item.qty) over invoice.items
SumQty(lines) ==
    IF lines = <<>> THEN 0 ELSE Head(lines).qty + SumQty(Tail(lines))

\* calculate_taxes_and_totals of the host platform: the grand total is the
\* sum of the line amounts, less the invoice-level discount, plus the tax on
\* the net total.  Kept as a multiple of 1 / (Scale * 100 * 100 * Scale).
GrandTotal(lines, discount_percentage, taxes) ==
    SumAmount(lines) * (100 * Scale - discount_percentage)
        * (100 * Scale + (IF taxes = <<>> THEN 0 ELSE taxes[1].rate))

InvoiceLine(item_data) ==
    [item_code |-> item_data.item_code,
     customer_item_code |-> item_data.product_code,
     description |-> IF item_data.description # <<>> THEN item_data.description
                     ELSE IF item_data.item_name # <<>> THEN item_data.item_name
                     ELSE item_data.product_name,
     qty |-> item_data.total_qty,
     rate |-> item_data.rate,
     amount |-> item_data.total_amount]

\* variant: only the first line reaches the draft
InvoiceLines_FirstOnly(items_data) ==
    IF items_data = <<>> THEN <<>> ELSE <<InvoiceLine(Head(items_data))>>

RECURSIVE InvoiceLines(_)
InvoiceLines(items_data) ==
    IF items_data = <<>> THEN <<>>
    ELSE <<InvoiceLine(Head(items_data))>> \o InvoiceLines(Tail(items_data))

\* variant: the tax line is added with the default rate when no account is set
TaxLines_Always(settings, accounts) ==
    <<[charge_type |-> "On Net Total",
       account_head |-> settings.tax_account,
       rate |-> get_dynamic_tax_rate(settings, accounts)]>>

\* the tax lines of the draft
TaxLines(settings, accounts) ==
    IF settings.tax_account = None THEN <<>>
    ELSE <<[charge_type |-> "On Net Total",
            account_head |-> settings.tax_account,
            rate |-> get_dynamic_tax_rate(settings, accounts)]>>

\* variant: no draft is withheld
Suppressed_Never(settings, invoice) == FALSE

\* the zero-amount check on the assembled draft
Suppressed(settings, invoice) ==
    settings.nullrechnungen_unterdruecken /\ invoice.grand_total = 0

\* the return value None of create_hornetsecurity_sales_invoice_safe
NoInvoice == [none |-> TRUE]

\* variant: no invoice is made for a customer who already has one in the table
create_hornetsecurity_sales_invoice_safe_Once(customer_ref_nr, items_data, settings, errs, customers, accounts, known, exchange, invoices) ==
    LET customer == CustomersByReference(customers, customer_ref_nr)[1]
        csv_currency == IF items_data # <<>> THEN items_data[1].currency ELSE <<>>
        invoice_currency == get_invoice_currency(csv_currency, known)
        conversion_rate == get_conversion_rate(invoice_currency, CompanyDefaultCurrency,
                                               Today, exchange)
        customer_discount_percentage ==
            get_customer_discount(customer.customer_name,
                                  settings.hornetsecurity_rabattwerte_je_kunde)
        lines == InvoiceLines(items_data)
        taxes == TaxLines(settings, accounts)
        errors1 == IF settings.tax_account = None
                   THEN Append(errs, Err(MsgNoTaxAccount, 0, customer_ref_nr, <<>>))
                   ELSE errs
        discount == IF customer_discount_percentage > 0
                    THEN customer_discount_percentage ELSE 0
        invoice == [customer |-> customer.name,
                    currency |-> invoice_currency,
                    conversion_rate |-> conversion_rate,
                    posting_date |-> Today,
                    items |-> lines,
                    taxes |-> taxes,
                    additional_discount_percentage |-> discount,
                    grand_total |-> GrandTotal(lines, discount, taxes)]
    IN  IF Len(lines) = 0 \/ \E k \in DOMAIN invoices : invoices[k].customer = customer.name
        THEN [invoice |-> NoInvoice, errors |-> errs, invoices |-> invoices]
        ELSE IF Suppressed(settings, invoice)
        THEN [invoice |-> NoInvoice, errors |-> errors1, invoices |-> invoices]
        ELSE [invoice |-> invoice, errors |-> errors1,
              invoices |-> Append(invoices, invoice)]

\* returns (invoice, errors, invoices): invoice is NoInvoice when None is
\* returned, invoices is the Sales Invoice table after the call
create_hornetsecurity_sales_invoice_safe(customer_ref_nr, items_data, settings, errs, customers, accounts, known, exchange, invoices) ==
    LET customer == CustomersByReference(customers, customer_ref_nr)[1]
        csv_currency == IF items_data # <<>> THEN items_data[1].currency ELSE <<>>
        invoice_currency == get_invoice_currency(csv_currency, known)
        conversion_rate == get_conversion_rate(invoice_currency, CompanyDefaultCurrency,
                                               Today, exchange)
        customer_discount_percentage ==
            get_customer_discount(customer.customer_name,
                                  settings.hornetsecurity_rabattwerte_je_kunde)
        lines == InvoiceLines(items_data)
        taxes == TaxLines(settings, accounts)
        errors1 == IF settings.tax_account = None
                   THEN Append(errs, Err(MsgNoTaxAccount, 0, customer_ref_nr, <<>>))
                   ELSE errs
        discount == IF customer_discount_percentage > 0
                    THEN customer_discount_percentage ELSE 0
        invoice == [customer |-> customer.name,
                    currency |-> invoice_currency,
                    conversion_rate |-> conversion_rate,
                    posting_date |-> Today,
                    items |-> lines,
                    taxes |-> taxes,
                    additional_discount_percentage |-> discount,
                    grand_total |-> GrandTotal(lines, discount, taxes)]
    IN  IF Len(lines) = 0
        THEN [invoice |-> NoInvoice, errors |-> errs, invoices |-> invoices]
        ELSE IF Suppressed(settings, invoice)
        THEN [invoice |-> NoInvoice, errors |-> errors1, invoices |-> invoices]
        ELSE [invoice |-> invoice, errors |-> errors1,
              invoices |-> Append(invoices, invoice)]

\* variant: the items are resolved before the customer is looked up
ProcessCustomer_ItemsFirst(st, entry, settings, customers, accounts, known, exchange) ==
    LET customer_ref_nr == entry.customer_ref_nr
        customer == CustomersByReference(customers, customer_ref_nr)
        resolved == validate_and_process_items_hornetsecurity(
                        customer_ref_nr, entry.items, settings,
                        st.errors, st.created_items_log, st.items)
        made == create_hornetsecurity_sales_invoice_safe(
                        customer_ref_nr, resolved.valid_items, settings,
                        resolved.errors, customers, accounts, known, exchange, st.invoices)
        after_items == [st EXCEPT !.errors = resolved.errors,
                                  !.created_items_log = resolved.created_items_log,
                                  !.items = resolved.items]
    IN  IF customer = <<>>
        THEN [after_items EXCEPT !.errors =
                Append(@, Err(MsgCustomerNotFound, 0, customer_ref_nr, <<>>))]
        ELSE IF resolved.valid_items = <<>>
        THEN [after_items EXCEPT !.errors =
                Append(@, Err(MsgNoValidItems, 0, customer_ref_nr, <<>>))]
        ELSE IF made.invoice = NoInvoice
        THEN [after_items EXCEPT !.errors = made.errors]
        ELSE [after_items EXCEPT
                !.errors = made.errors,
                !.invoices = made.invoices,
                !.invoices_created = @ + 1,
                !.successful_customers = Append(@, customer_ref_nr),
                !.total_licenses_after = @ + SumQty(made.invoice.items)]

\* the body of the loop over customer_invoices.items()
ProcessCustomer(st, entry, settings, customers, accounts, known, exchange) ==
    LET customer_ref_nr == entry.customer_ref_nr
        customer == CustomersByReference(customers, customer_ref_nr)
        resolved == validate_and_process_items_hornetsecurity(
                        customer_ref_nr, entry.items, settings,
                        st.errors, st.created_items_log, st.items)
        made == create_hornetsecurity_sales_invoice_safe(
                        customer_ref_nr, resolved.valid_items, settings,
                        resolved.errors, customers, accounts, known, exchange, st.invoices)
        after_items == [st EXCEPT !.errors = resolved.errors,
                                  !.created_items_log = resolved.created_items_log,
                                  !.items = resolved.items]
    IN  IF customer = <<>>
        THEN [st EXCEPT !.errors =
                Append(@, Err(MsgCustomerNotFound, 0, customer_ref_nr, <<>>))]
        ELSE IF resolved.valid_items = <<>>
        THEN [after_items EXCEPT !.errors =
                Append(@, Err(MsgNoValidItems, 0, customer_ref_nr, <<>>))]
        ELSE IF made.invoice = NoInvoice
        THEN [after_items EXCEPT !.errors = made.errors]
        ELSE [after_items EXCEPT
                !.errors = made.errors,
                !.invoices = made.invoices,
                !.invoices_created = @ + 1,
                !.successful_customers = Append(@, customer_ref_nr),
                !.total_licenses_after = @ + SumQty(made.invoice.items)]

RECURSIVE CustomerLoop(_, _, _, _, _, _, _)
CustomerLoop(st, ci, settings, customers, accounts, known, exchange) ==
    IF ci = <<>> THEN st
    ELSE CustomerLoop(ProcessCustomer(st, Head(ci), settings, customers, accounts,
                                      known, exchange),
                      Tail(ci), settings, customers, accounts, known, exchange)

\* ------------------------------------------------------------------- report
generate_hornetsecurity_report_with_items(licenses_before, licenses_after, created, errs, successful, items_log) ==
    <<[line |-> "Gesamtzahl Lizenzen vorher:", value |-> licenses_before],
      [line |-> "Gesamtzahl Lizenzen nachher:", value |-> licenses_after],
      [line |-> "Gesamtzahl erz. Rechnungen:", value |-> created]>>
    \o (IF successful # <<>>
        THEN <<[line |-> "Erfolgreiche Kunden:", value |-> successful]>> ELSE <<>>)
    \o (IF items_log # <<>>
        THEN <<[line |-> "Neu erstellte Artikel:", value |-> items_log]>> ELSE <<>>)
    \o (IF errs # <<>>
        THEN <<[line |-> "Fehler", value |-> errs]>> ELSE <<>>)

\* -------------------------------------------------------------------- state
VARIABLES
    Customer,                \* table Customer of the document store
    Item,                    \* table Item
    Account,                 \* table Account
    CurrencyExchange,        \* table Currency Exchange
    SalesInvoice,            \* table Sales Invoice
    settings_doc,            \* the CSV Import Hornetsecurity Settings record
    imports,                 \* number of process_csv_import calls so far
    rows,                    \* list(csv_reader) of the last call
    status,                  \* 'status' of the last call's return value
    errors,                  \* the locals of the last call, as it returned
    created_items_log,
    customer_product_data,
    customer_invoices,
    total_licenses_before,
    total_licenses_after,
    invoices_created,
    successful_customers,
    phase,                   \* where each concurrent invocation stands
    local                    \* the locals of each concurrent invocation

vars == <<Customer, Item, Account, CurrencyExchange, SalesInvoice, settings_doc,
          imports, rows, status, errors, created_items_log, customer_product_data,
          customer_invoices, total_licenses_before, total_licenses_after,
          invoices_created, successful_customers, phase, local>>

\* the Currency table
Currency == {EUR, USD, CHF}

\* ------------------------------------------------------- process_csv_import
\* the locals of process_csv_import when it returns 'status': 'success', and
\* the tables it has written
RunImport(file_rows, settings, customers, accounts, exchange, items, invoices) ==
    LET grouped == RowLoop([customer_product_data |-> <<>>,
                            total_licenses_before |-> 0,
                            errors |-> <<>>], file_rows, 0)
        aggregated == AggregateLoop([customer_invoices |-> <<>>,
                                     errors |-> grouped.errors],
                                    grouped.customer_product_data)
        done == CustomerLoop([errors |-> aggregated.errors,
                              created_items_log |-> <<>>,
                              items |-> items,
                              invoices |-> invoices,
                              invoices_created |-> 0,
                              total_licenses_after |-> 0,
                              successful_customers |-> <<>>],
                             aggregated.customer_invoices,
                             settings, customers, accounts, Currency, exchange)
    IN  [customer_product_data |-> grouped.customer_product_data,
         total_licenses_before |-> grouped.total_licenses_before,
         customer_invoices |-> aggregated.customer_invoices,
         done |-> done]

\* CSVImportHornetsecuritySettings.before_save, run by settings_doc.save():
\* TRUE when it does not throw
before_save(settings, accounts) ==
    settings.tax_account # None =>
        \E k \in DOMAIN accounts : accounts[k].name = settings.tax_account

process_csv_import(file_rows) ==
    /\ imports' = imports + 1
    /\ rows' = file_rows
    /\ UNCHANGED <<Customer, Account, CurrencyExchange, phase, local>>
    /\ IF settings_doc.artikelgruppe = None
       THEN /\ status' = "error"
            /\ errors' = <<>>
            /\ created_items_log' = <<>>
            /\ customer_product_data' = <<>>
            /\ customer_invoices' = <<>>
            /\ total_licenses_before' = 0
            /\ total_licenses_after' = 0
            /\ invoices_created' = 0
            /\ successful_customers' = <<>>
            /\ UNCHANGED <<Item, SalesInvoice, settings_doc>>
       ELSE \E run \in {RunImport(file_rows, settings_doc, Customer, Account,
                                  CurrencyExchange, Item, SalesInvoice)} :
            LET done == run.done
                report == generate_hornetsecurity_report_with_items(
                              run.total_licenses_before,
                              done.total_licenses_after, done.invoices_created,
                              done.errors, done.successful_customers,
                              done.created_items_log)
                saved == before_save(settings_doc, Account)
            IN  /\ status' = (IF saved THEN "success" ELSE "error")
                /\ errors' = done.errors
                /\ created_items_log' = done.created_items_log
                /\ customer_product_data' = run.customer_product_data
                /\ customer_invoices' = run.customer_invoices
                /\ total_licenses_before' = run.total_licenses_before
                /\ total_licenses_after' = done.total_licenses_after
                /\ invoices_created' = done.invoices_created
                /\ successful_customers' = done.successful_customers
                /\ Item' = done.items
                /\ SalesInvoice' = done.invoices
                /\ settings_doc' =
                      (IF saved
                       THEN [settings_doc EXCEPT
                               !.hornetsecurity_importhistorie = @ + 1,
                               !.hornetsecurity_importergebnis = Append(@, report)]
                       ELSE settings_doc)

\* ------------------------------------------- concurrent process_csv_import
\* Two invocations of process_csv_import, each a request of its own, running
\* against the same document store.  An invocation is cut at its accesses to
\* the store: the customer query, the item queries, the item insert, the
\* invoice insert and the final save each are one step.
Procs == {"a", "b"}

IdleLocals ==
    [rows |-> <<>>, status |-> "none", todo |-> <<>>, customer_invoices |-> <<>>,
     customer_ref_nr |-> <<>>, items |-> <<>>, valid_items |-> <<>>,
     errors |-> <<>>, created_items_log |-> <<>>, total_licenses_before |-> 0,
     total_licenses_after |-> 0, invoices_created |-> 0,
     successful_customers |-> <<>>]

Untouched ==
    UNCHANGED <<Customer, Account, CurrencyExchange, rows, status, errors,
                created_items_log, customer_product_data, customer_invoices,
                total_licenses_before, total_licenses_after, invoices_created,
                successful_customers>>

\* lines 26-151: the settings are read, the file is parsed, grouped and
\* aggregated; nothing is written to the store
Begin(p, file_rows) ==
    /\ phase[p] = "idle"
    /\ imports' = imports + 1
    /\ IF settings_doc.artikelgruppe = None
       THEN /\ phase' = [phase EXCEPT ![p] = "done"]
            /\ local' = [local EXCEPT ![p].rows = file_rows, ![p].status = "error"]
       ELSE \E grouped \in {RowLoop([customer_product_data |-> <<>>,
                                     total_licenses_before |-> 0,
                                     errors |-> <<>>], file_rows, 0)} :
            \E aggregated \in {AggregateLoop([customer_invoices |-> <<>>,
                                              errors |-> grouped.errors],
                                             grouped.customer_product_data)} :
               /\ phase' = [phase EXCEPT ![p] = "customer"]
               /\ local' = [local EXCEPT
                      ![p].rows = file_rows,
                      ![p].todo = aggregated.customer_invoices,
                      ![p].customer_invoices = aggregated.customer_invoices,
                      ![p].errors = aggregated.errors,
                      ![p].total_licenses_before = grouped.total_licenses_before]
    /\ UNCHANGED <<Item, SalesInvoice, settings_doc>>
    /\ Untouched

\* lines 158-168: the next key of customer_invoices and its customer query
LookupCustomer(p) ==
    /\ phase[p] = "customer"
    /\ IF local[p].todo = <<>>
       THEN /\ phase' = [phase EXCEPT ![p] = "save"]
            /\ local' = local
       ELSE LET entry == Head(local[p].todo) IN
            IF CustomersByReference(Customer, entry.customer_ref_nr) = <<>>
            THEN /\ phase' = phase
                 /\ local' = [local EXCEPT
                        ![p].todo = Tail(@),
                        ![p].errors = Append(@, Err(MsgCustomerNotFound, 0,
                                                    entry.customer_ref_nr, <<>>))]
            ELSE /\ phase' = [phase EXCEPT ![p] = "item"]
                 /\ local' = [local EXCEPT
                        ![p].todo = Tail(@),
                        ![p].customer_ref_nr = entry.customer_ref_nr,
                        ![p].items = entry.items,
                        ![p].valid_items = <<>>]
    /\ UNCHANGED <<Item, SalesInvoice, settings_doc, imports>>
    /\ Untouched

\* the existence check of create_item_for_other_product (lines 360-363)
\* finds no item for the line that is next
CheckFindsNothing(p) ==
    /\ local[p].items # <<>>
    /\ Upper(Head(local[p].items).product_code) = SentinelOther
    /\ settings_doc.artikelgruppe # None
    /\ Head(local[p].items).product_name # <<>>
    /\ ItemsByCode(Item, Head(local[p].items).product_name) = <<>>

\* lines 393-444 for the next line, up to and including its query of the
\* Item table; a line that needs a new item stays first in items
ResolveNextItem(p) ==
    /\ phase[p] = "item"
    /\ IF local[p].items = <<>>
       THEN /\ phase' = [phase EXCEPT ![p] = "invoice"]
            /\ local' = local
       ELSE IF CheckFindsNothing(p)
       THEN /\ phase' = [phase EXCEPT ![p] = "insert_item"]
            /\ local' = local
       ELSE \E r \in {ResolveItem([valid_items |-> local[p].valid_items,
                                   errors |-> local[p].errors,
                                   created_items_log |-> local[p].created_items_log,
                                   items |-> Item],
                                  local[p].customer_ref_nr, Head(local[p].items),
                                  settings_doc)} :
               /\ phase' = phase
               /\ local' = [local EXCEPT
                      ![p].items = Tail(@),
                      ![p].valid_items = r.valid_items,
                      ![p].errors = r.errors,
                      ![p].created_items_log = r.created_items_log]
    /\ UNCHANGED <<Item, SalesInvoice, settings_doc, imports>>
    /\ Untouched

\* lines 369-382 and 419-444: the insert of the new item succeeds.  The
\* resolver is applied to the table as the check saw it, with no item of this
\* code, and the item it makes is added to the table as it is now.
InsertItem(p) ==
    /\ phase[p] = "insert_item"
    /\ \E r \in {ResolveItem([valid_items |-> local[p].valid_items,
                              errors |-> local[p].errors,
                              created_items_log |-> local[p].created_items_log,
                              items |-> <<>>],
                             local[p].customer_ref_nr, Head(local[p].items),
                             settings_doc)} :
          /\ Item' = Item \o r.items
          /\ local' = [local EXCEPT
                 ![p].items = Tail(@),
                 ![p].valid_items = r.valid_items,
                 ![p].errors = r.errors,
                 ![p].created_items_log = r.created_items_log]
    /\ phase' = [phase EXCEPT ![p] = "item"]
    /\ UNCHANGED <<SalesInvoice, settings_doc, imports>>
    /\ Untouched

\* lines 384-387 and 415-417: the store refuses the insert because an item
\* of this code has been inserted since the check; the line is skipped
InsertItemRefused(p) ==
    /\ phase[p] = "insert_item"
    /\ ItemsByCode(Item, Head(local[p].items).product_name) # <<>>
    /\ local' = [local EXCEPT
           ![p].items = Tail(@),
           ![p].created_items_log =
               Append(@, [msg |-> "Failed to create item",
                          item |-> Head(local[p].items).product_name]),
           ![p].errors = Append(@, Err(MsgItemCreateFailed, 0, local[p].customer_ref_nr,
                                       Head(local[p].items).product_name))]
    /\ phase' = [phase EXCEPT ![p] = "item"]
    /\ UNCHANGED <<Item, SalesInvoice, settings_doc, imports>>
    /\ Untouched

\* lines 175-185: the invoice of the customer is assembled and inserted
InsertInvoice(p) ==
    /\ phase[p] = "invoice"
    /\ IF local[p].valid_items = <<>>
       THEN /\ local' = [local EXCEPT
                   ![p].errors = Append(@, Err(MsgNoValidItems, 0,
                                               local[p].customer_ref_nr, <<>>))]
            /\ UNCHANGED SalesInvoice
       ELSE \E made \in {create_hornetsecurity_sales_invoice_safe(
                             local[p].customer_ref_nr, local[p].valid_items,
                             settings_doc, local[p].errors, Customer, Account,
                             Currency, CurrencyExchange, SalesInvoice)} :
               IF made.invoice = NoInvoice
               THEN /\ local' = [local EXCEPT ![p].errors = made.errors]
                    /\ UNCHANGED SalesInvoice
               ELSE /\ local' = [local EXCEPT
                           ![p].errors = made.errors,
                           ![p].invoices_created = @ + 1,
                           ![p].successful_customers =
                               Append(@, local[p].customer_ref_nr),
                           ![p].total_licenses_after = @ + SumQty(made.invoice.items)]
                    /\ SalesInvoice' = made.invoices
    /\ phase' = [phase EXCEPT ![p] = "customer"]
    /\ UNCHANGED <<Item, settings_doc, imports>>
    /\ Untouched

\* lines 191-224: the report, the history and result rows and the save
Save(p) ==
    /\ phase[p] = "save"
    /\ LET report == generate_hornetsecurity_report_with_items(
                         local[p].total_licenses_before,
                         local[p].total_licenses_after, local[p].invoices_created,
                         local[p].errors, local[p].successful_customers,
                         local[p].created_items_log)
           saved == before_save(settings_doc, Account)
       IN  /\ local' = [local EXCEPT
                  ![p].status = IF saved THEN "success" ELSE "error"]
           /\ settings_doc' =
                 (IF saved
                  THEN [settings_doc EXCEPT
                          !.hornetsecurity_importhistorie = @ + 1,
                          !.hornetsecurity_importergebnis = Append(@, report)]
                  ELSE settings_doc)
    /\ phase' = [phase EXCEPT ![p] = "done"]
    /\ UNCHANGED <<Item, SalesInvoice, imports>>
    /\ Untouched

\* ------------------------------------------------------------------- inputs
C1 == <<"C", "1">>
C2 == <<"C", "2">>
C3 == <<"C", "3">>
P1 == <<"P", "1">>
P2 == <<"P", "2">>
N1 == <<"N", "1">>
N2 == <<"N", "2">>
Gruppe == <<"G">>
SteuerKonto == <<"U", "S", "t">>

Row(crn, code, product, count, price, total, currency) ==
    [CustomerReferenceNumber |-> crn, ProductCode |-> code, Product |-> product,
     LicensesCount |-> count, CustomerPricePerLicense |-> price,
     CustomerTotal |-> total, Currency |-> currency]

SeqsUpTo(S, n) == UNION {[1..k -> S] : k \in 0..n}

\* the lines a CSV file is made of
RowPool ==
    { Row(C1, P1, N1, <<"2">>, <<"1">>, <<"2">>, EUR),
      Row(C1, P1, N1, <<"3">>, <<"2">>, <<"6">>, EUR),
      Row(C1, P1, N1, <<"-", "1">>, <<"1">>, <<"-", "1">>, EUR),
      Row(C1, P1, N1, <<"2">>, <<"0">>, <<"0">>, EUR),
      Row(<<>>, P1, N1, <<"2">>, <<"1">>, <<"2">>, EUR),
      Row(C1, <<" ">>, N1, <<"2">>, <<"1">>, <<"2">>, EUR),
      Row(C2, P1, N1, <<"2">>, <<"1">>, <<"2">>, EUR),
      Row(C3, P1, N1, <<"2">>, <<"1">>, <<"2">>, EUR),
      Row(C1, P2, N2, <<"4", ",", "5">>, <<"1">>, <<"4", ",", "5">>, USD),
      Row(C1, SentinelOther, N1, <<"2">>, <<"1">>, <<"2">>, EUR),
      Row(C1, SentinelOther, <<>>, <<"2">>, <<"1">>, <<"2">>, EUR),
      Row(C1, SentinelOther, N2, <<"1">>, <<"1">>, <<"1">>, EUR),
      Row(C2, <<"o", "t", "h", "e", "r">>, N1, <<"3">>, <<"1">>, <<"3">>, EUR),
      Row(<<" ", "C", "1">>, P1, N1, <<"1">>, <<"1">>, <<"1">>, USD),
      Row(C1, P1, N1, <<"2">>, <<"1">>, <<"2">>, None) }

\* the settings records an import can run under
SettingsChoices ==
    [artikelgruppe : {None, Gruppe},
     tax_account : {None, SteuerKonto},
     nullrechnungen_unterdruecken : BOOLEAN,
     hornetsecurity_rabattwerte_je_kunde :
         {<<>>, <<[kundenname |-> C2, rabatt_wert_in_prozent |-> 100 * Scale]>>},
     hornetsecurity_importhistorie : {0},
     hornetsecurity_importergebnis : {<<>>}]

CustomerRecord(ref) ==
    [name |-> ref, customer_name |-> ref, custom_interne_kundennummer |-> ref]

CatalogItem(code, external) ==
    [name |-> code, item_code |-> code, item_name |-> code, description |-> <<>>,
     item_group |-> Gruppe, custom_externe_artikelnummer |-> external]

InitStore ==
    /\ Customer = <<CustomerRecord(C1), CustomerRecord(C2)>>
    /\ Item = <<CatalogItem(<<"I", "1">>, P1)>>
    /\ Account = <<[name |-> SteuerKonto, tax_rate |-> 19 * Scale, rate |-> NoValue,
                    account_name |-> <<"U", "S", "t", " ", "1", "9", " ", "%">>]>>
    /\ CurrencyExchange = <<>>
    /\ SalesInvoice = <<>>

InitCall ==
    /\ imports = 0
    /\ rows = <<>>
    /\ status = "none"
    /\ errors = <<>>
    /\ created_items_log = <<>>
    /\ customer_product_data = <<>>
    /\ customer_invoices = <<>>
    /\ total_licenses_before = 0
    /\ total_licenses_after = 0
    /\ invoices_created = 0
    /\ successful_customers = <<>>
    /\ phase = [p \in Procs |-> "idle"]
    /\ local = [p \in Procs |-> IdleLocals]

Init ==
    /\ InitStore
    /\ settings_doc \in SettingsChoices
    /\ InitCall

\* one import of one file
Next ==
    /\ imports < 1
    /\ \E file_rows \in SeqsUpTo(RowPool, MaxRows) : process_csv_import(file_rows)

Spec == Init /\ [][Next]_vars

\* repeated imports of files of OTHER lines
OtherPool ==
    { Row(C1, SentinelOther, N1, <<"2">>, <<"1">>, <<"2">>, EUR),
      Row(C2, <<"o", "t", "h", "e", "r">>, N1, <<"3">>, <<"1">>, <<"3">>, EUR),
      Row(C1, SentinelOther, N2, <<"1">>, <<"1">>, <<"1">>, EUR) }

InitRepeat ==
    /\ InitStore
    /\ settings_doc \in {s \in SettingsChoices :
                            s.artikelgruppe = Gruppe /\ s.tax_account = SteuerKonto}
    /\ InitCall

NextRepeat ==
    /\ imports < MaxImports
    /\ \E file_rows \in SeqsUpTo(OtherPool, MaxRows) : process_csv_import(file_rows)

SpecRepeat == InitRepeat /\ [][NextRepeat]_vars

\* imports under a settings record whose tax account may have been deleted
\* from the Account table since the record was last saved
AltesKonto == <<"A", "l", "t">>

SavePool ==
    { Row(C1, P1, N1, <<"2">>, <<"1">>, <<"2">>, EUR),
      Row(C1, SentinelOther, N1, <<"2">>, <<"1">>, <<"2">>, EUR),
      Row(C2, P1, N1, <<"2">>, <<"1">>, <<"2">>, EUR),
      Row(C3, SentinelOther, N2, <<"2">>, <<"1">>, <<"2">>, EUR),
      Row(C1, P2, N2, <<"4", ",", "5">>, <<"1">>, <<"4", ",", "5">>, USD) }

InitSave ==
    /\ InitStore
    /\ settings_doc \in [artikelgruppe : {None, Gruppe},
                         tax_account : {SteuerKonto, AltesKonto},
                         nullrechnungen_unterdruecken : BOOLEAN,
                         hornetsecurity_rabattwerte_je_kunde : {<<>>},
                         hornetsecurity_importhistorie : {0},
                         hornetsecurity_importergebnis : {<<>>}]
    /\ InitCall

NextSave ==
    /\ imports < 1
    /\ \E file_rows \in SeqsUpTo(SavePool, MaxRows) : process_csv_import(file_rows)

SpecSave == InitSave /\ [][NextSave]_vars

\* imports under tax accounts of every shape: each rate field absent, zero
\* or set, and display names with and without a percentage
TaxPool ==
    { Row(C1, P1, N1, <<"2">>, <<"1">>, <<"2">>, EUR),
      Row(C2, P1, N1, <<"3">>, <<"2">>, <<"6">>, EUR) }

TaxAccountNames ==
    { <<"U", "S", "t">>,
      <<"U", "S", "t", " ", "1", "9", " ", "%">>,
      <<"7", ".", "5", "%">>,
      <<"U", "S", "t", " ", "0", "%">> }

InitTax ==
    /\ Customer = <<CustomerRecord(C1), CustomerRecord(C2)>>
    /\ Item = <<CatalogItem(<<"I", "1">>, P1)>>
    /\ Account \in {<<a>> : a \in [name : {SteuerKonto},
                                   tax_rate : {NoValue, 0, 7 * Scale},
                                   rate : {NoValue, 0, 16 * Scale},
                                   account_name : TaxAccountNames]}
    /\ CurrencyExchange = <<>>
    /\ SalesInvoice = <<>>
    /\ settings_doc \in {s \in SettingsChoices :
                            /\ s.artikelgruppe = Gruppe
                            /\ s.tax_account = SteuerKonto
                            /\ s.hornetsecurity_rabattwerte_je_kunde = <<>>}
    /\ InitCall

NextTax ==
    /\ imports < 1
    /\ \E file_rows \in SeqsUpTo(TaxPool, MaxRows) : process_csv_import(file_rows)

SpecTax == InitTax /\ [][NextTax]_vars

\* imports of invoices in a foreign currency, under Currency Exchange tables
\* with and without a rate of today
ExchangeRecord(from_currency, exchange_date, for_selling, exchange_rate) ==
    [from_currency |-> from_currency, to_currency |-> CompanyDefaultCurrency,
     date |-> exchange_date, for_selling |-> for_selling,
     exchange_rate |-> exchange_rate]

ExchangePool ==
    { ExchangeRecord(USD, Today, 1, 11),
      ExchangeRecord(USD, Today - 1, 1, 12),
      ExchangeRecord(USD, Today, 0, 13),
      ExchangeRecord(USD, Today - 2, 1, 14),
      ExchangeRecord(CHF, Today, 1, 9) }

RatesPool ==
    { Row(C1, P1, N1, <<"2">>, <<"1">>, <<"2">>, USD),
      Row(C2, P1, N1, <<"3">>, <<"2">>, <<"6">>, EUR),
      Row(C1, P2, N2, <<"1">>, <<"1">>, <<"1">>, EUR) }

InitRates ==
    /\ Customer = <<CustomerRecord(C1), CustomerRecord(C2)>>
    /\ Item = <<CatalogItem(<<"I", "1">>, P1)>>
    /\ Account = <<[name |-> SteuerKonto, tax_rate |-> 19 * Scale, rate |-> NoValue,
                    account_name |-> <<"U", "S", "t", " ", "1", "9", " ", "%">>]>>
    /\ CurrencyExchange \in {x \in SeqsUpTo(ExchangePool, 2) :
                                \A j, k \in DOMAIN x : x[j] = x[k] => j = k}
    /\ SalesInvoice = <<>>
    /\ settings_doc \in {s \in SettingsChoices :
                            /\ s.artikelgruppe = Gruppe
                            /\ s.tax_account = SteuerKonto
                            /\ s.hornetsecurity_rabattwerte_je_kunde = <<>>}
    /\ InitCall

NextRates ==
    /\ imports < 1
    /\ \E file_rows \in SeqsUpTo(RatesPool, MaxRows) : process_csv_import(file_rows)

SpecRates == InitRates /\ [][NextRates]_vars

\* two concurrent imports
ConcurrentFiles ==
    { <<Row(C1, SentinelOther, N1, <<"2">>, <<"1">>, <<"2">>, EUR)>>,
      <<Row(C1, P1, N1, <<"2">>, <<"1">>, <<"2">>, EUR),
        Row(C1, SentinelOther, N1, <<"2">>, <<"1">>, <<"2">>, EUR)>>,
      <<Row(C2, SentinelOther, N1, <<"3">>, <<"1">>, <<"3">>, EUR),
        Row(C3, P1, N1, <<"2">>, <<"1">>, <<"2">>, EUR)>>,
      <<Row(C1, P2, N2, <<"1">>, <<"1">>, <<"1">>, EUR)>> }

InitConcurrent ==
    /\ InitStore
    /\ settings_doc \in {s \in SettingsChoices :
                            /\ s.artikelgruppe = Gruppe
                            /\ s.tax_account = SteuerKonto
                            /\ ~ s.nullrechnungen_unterdruecken
                            /\ s.hornetsecurity_rabattwerte_je_kunde = <<>>}
    /\ InitCall

NextConcurrent ==
    \E p \in Procs :
        \/ \E file_rows \in ConcurrentFiles : Begin(p, file_rows)
        \/ LookupCustomer(p)
        \/ ResolveNextItem(p)
        \/ InsertItem(p)
        \/ InsertItemRefused(p)
        \/ InsertInvoice(p)
        \/ Save(p)

SpecConcurrent == InitConcurrent /\ [][NextConcurrent]_vars

\* imports of files whose fields contain the characters of the key format,
\* whose lines of one customer differ in currency, and with an OTHER line of
\* negative quantity
OtherN1Code == <<"O", "T", "H", "E", "R", "_", "N", "1">>

KeyPool ==
    { Row(C1, P1, N1, <<"2">>, <<"1">>, <<"2">>, EUR),
      Row(C1, SentinelOther, N1, <<"3">>, <<"1">>, <<"3">>, USD),
      Row(C1, OtherN1Code, N2, <<"2">>, <<"1">>, <<"2">>, USD),
      Row(C1 \o <<"|">> \o P1, P2, N1, <<"2">>, <<"1">>, <<"2">>, EUR),
      Row(C1, P1 \o <<"|">> \o P2, N1, <<"3">>, <<"1">>, <<"3">>, EUR),
      Row(C1, SentinelOther, N2, <<"-", "1">>, <<"1">>, <<"-", "1">>, EUR) }

InitKeys ==
    /\ InitStore
    /\ settings_doc \in {s \in SettingsChoices :
                            /\ s.artikelgruppe = Gruppe
                            /\ s.tax_account = SteuerKonto
                            /\ s.hornetsecurity_rabattwerte_je_kunde = <<>>}
    /\ InitCall

NextKeys ==
    /\ imports < 1
    /\ \E file_rows \in SeqsUpTo(KeyPool, MaxRows) : process_csv_import(file_rows)

SpecKeys == InitKeys /\ [][NextKeys]_vars

\* ================================================================ properties
\* Rows are numbered 1..Len(rows) here; row k is index k - 1 of the code and
\* line k + 1 of the file.
RECURSIVE SumOver(_, _)
\* the sum of f[k] over the k in S
SumOver(S, f) ==
    IF S = {} THEN 0
    ELSE LET k == CHOOSE x \in S : TRUE IN f[k] + SumOver(S \ {k}, f)

IsBlank(field) == field # None /\ Strip(field) = <<>>

IsOtherCode(row) == Upper(Strip(row.ProductCode)) = SentinelOther

\* the rows that pass the per-row validation
Filed(row) ==
    /\ None \notin {row.CustomerReferenceNumber, row.ProductCode,
                    row.LicensesCount, row.Currency}
    /\ ~ IsBlank(row.CustomerReferenceNumber)
    /\ ~ IsBlank(row.ProductCode)
    /\ IsOtherCode(row) => (row.Product # None /\ ~ IsBlank(row.Product))

RowKey(row) ==
    AggregateKey(Strip(row.CustomerReferenceNumber),
                 KeyIdentifier(Strip(row.ProductCode),
                               IF row.Product = None THEN <<>> ELSE Strip(row.Product)))

KeyRows(key) == {k \in DOMAIN rows : Filed(rows[k]) /\ RowKey(rows[k]) = key}

RowQty == [k \in DOMAIN rows |-> convert_german_number(rows[k].LicensesCount)]
RowAbsQty == [k \in DOMAIN rows |-> IF RowQty[k] < 0 THEN 0 - RowQty[k] ELSE RowQty[k]]
RowTotal == [k \in DOMAIN rows |-> convert_german_number(rows[k].CustomerTotal)]
RowPrice == [k \in DOMAIN rows |-> convert_german_number(rows[k].CustomerPricePerLicense)]

QtySum(key) == SumOver(KeyRows(key), RowQty)
AmountSum(key) == SumOver(KeyRows(key), RowTotal)

\* the aggregated lines, as pairs (entry of customer_invoices, position)
Lines ==
    {p \in (DOMAIN customer_invoices) \X (1..MaxRows + 1) :
        p[2] \in DOMAIN customer_invoices[p[1]].items}

LineAt(p) == customer_invoices[p[1]].items[p[2]]
LineCustomer(p) == customer_invoices[p[1]].customer_ref_nr
LineKey(p) ==
    AggregateKey(LineCustomer(p),
                 KeyIdentifier(LineAt(p).product_code, LineAt(p).product_name))

GroupedCount ==
    SumOver(DOMAIN customer_product_data,
            [g \in DOMAIN customer_product_data |-> Len(customer_product_data[g].rows)])

ErrorsAtLine(n) == {e \in DOMAIN errors : errors[e].line = n}

BlankRefOrCode(row) ==
    IsBlank(row.CustomerReferenceNumber) \/ IsBlank(row.ProductCode)

InGroups(row) ==
    \E g \in DOMAIN customer_product_data :
        \E j \in DOMAIN customer_product_data[g].rows :
            customer_product_data[g].rows[j] = row

\* C1: a row whose customer reference or product code is blank is filed under
\* no key and leaves exactly one error, which names line (index + 2); the
\* rows after it are still validated, and every valid row is filed under its key.
C1_BlankRowSkipped ==
    status = "success" =>
        /\ \A k \in DOMAIN rows :
              BlankRefOrCode(rows[k]) =>
                  /\ ~ InGroups(rows[k])
                  /\ Cardinality(ErrorsAtLine(k + 1)) = 1
        /\ \A k \in DOMAIN rows :
              Filed(rows[k]) =>
                  \E g \in DOMAIN customer_product_data :
                      /\ customer_product_data[g].key = RowKey(rows[k])
                      /\ \E j \in DOMAIN customer_product_data[g].rows :
                            customer_product_data[g].rows[j] = rows[k]
        /\ GroupedCount = Cardinality({k \in DOMAIN rows : Filed(rows[k])})

C1_Witness ==
    /\ status = "success"
    /\ \E k \in DOMAIN rows : \E j \in DOMAIN rows :
          /\ k < j
          /\ BlankRefOrCode(rows[k])
          /\ errors[1].line = k + 1
          /\ Filed(rows[j])
          /\ InGroups(rows[j])

\* the last row of the file that was filed under key
LastRow(key) == CHOOSE k \in KeyRows(key) : \A j \in KeyRows(key) : j <= k
FirstRow(key) == CHOOSE k \in KeyRows(key) : \A j \in KeyRows(key) : k <= j

LinesOfKey(key) == {p \in Lines : LineKey(p) = key}

C3_RateOfLastRow ==
    status = "success" =>
        \A p \in Lines : LineAt(p).rate = RowPrice[LastRow(LineKey(p))]

\* the last row's price wins over a differing price of the first row, and is
\* not the average price total_amount / total_qty
C3_Witness ==
    /\ status = "success"
    /\ \E p \in Lines :
          /\ Cardinality(KeyRows(LineKey(p))) >= 2
          /\ RowPrice[FirstRow(LineKey(p))] # RowPrice[LastRow(LineKey(p))]
          /\ LineAt(p).rate = RowPrice[LastRow(LineKey(p))]
          /\ LineAt(p).rate * LineAt(p).total_qty # LineAt(p).total_amount * Scale

\* C5: an import that returns success has total_licenses_before >=
\* total_licenses_after.
C5_BeforeAtLeastAfter ==
    status = "success" => total_licenses_before >= total_licenses_after

LookupFailed ==
    \E e \in DOMAIN errors : errors[e].msg \in {MsgCustomerNotFound, MsgItemNotFound}

C5_Witness ==
    /\ status = "success"
    /\ LookupFailed
    /\ total_licenses_after > 0
    /\ total_licenses_before > total_licenses_after

CustomerResolves(customer_ref_nr) ==
    CustomersByReference(Customer, customer_ref_nr) # <<>>

ItemResolves(product_code) ==
    \/ Upper(product_code) = SentinelOther
    \/ ItemsByExternalNumber(Item, product_code) # <<>>

\* the item code the resolver gives to an aggregated line
ResolvedCode(line) ==
    IF Upper(line.product_code) = SentinelOther THEN line.product_name
    ELSE ItemsByExternalNumber(Item, line.product_code)[1].name

InvoicesOf(customer_ref_nr) ==
    {i \in DOMAIN SalesInvoice :
        SalesInvoice[i].customer = CustomersByReference(Customer, customer_ref_nr)[1].name}

\* the positions on invoice i of the lines with the given product code
InvoiceLinesOfCode(i, product_code) ==
    {n \in DOMAIN SalesInvoice[i].items :
        SalesInvoice[i].items[n].customer_item_code = product_code}

\* the positions on invoice i of the lines made from aggregated line p
InvoiceLinesOf(i, p) ==
    {n \in DOMAIN SalesInvoice[i].items :
        /\ SalesInvoice[i].items[n].customer_item_code = LineAt(p).product_code
        /\ SalesInvoice[i].items[n].item_code = ResolvedCode(LineAt(p))}

SameRefAndCode(k) ==
    {j \in DOMAIN rows :
        /\ Filed(rows[j])
        /\ Strip(rows[j].CustomerReferenceNumber) = Strip(rows[k].CustomerReferenceNumber)
        /\ Strip(rows[j].ProductCode) = Strip(rows[k].ProductCode)}

\* C4 as stated: the rows with the same customer_ref and product_code make
\* exactly one aggregated line, and when customer and item resolve the
\* invoice of the customer (there is at most one) has exactly one line of
\* that product code, with the summed quantity.
C4_OneLinePerRefAndCode ==
    status = "success" =>
        \A k \in DOMAIN rows :
            Filed(rows[k]) =>
                LET c == Strip(rows[k].CustomerReferenceNumber)
                    pc == Strip(rows[k].ProductCode)
                IN  /\ Cardinality({p \in Lines : LineCustomer(p) = c
                                        /\ LineAt(p).product_code = pc}) = 1
                    /\ (CustomerResolves(c) /\ ItemResolves(pc)) =>
                          /\ Cardinality(InvoicesOf(c)) <= 1
                          /\ \A i \in InvoicesOf(c) :
                                /\ Cardinality(InvoiceLinesOfCode(i, pc)) = 1
                                /\ \A n \in InvoiceLinesOfCode(i, pc) :
                                      SalesInvoice[i].items[n].qty =
                                          SumOver(SameRefAndCode(k), RowQty)

\* C4, amended: the rows with the same aggregate key (customer_ref and
\* product identifier) are filed under one entry and make one aggregated line
\* when their summed quantity is positive and none otherwise; when the item
\* resolves and the customer's invoice is persisted, the customer has one
\* invoice and it has exactly one line for that key, with the summed quantity.
C4_OneLinePerKey ==
    status = "success" =>
        \A g \in DOMAIN customer_product_data :
            LET key == customer_product_data[g].key
                c == customer_product_data[g].customer_ref_nr
            IN  /\ \A h \in DOMAIN customer_product_data :
                      customer_product_data[h].key = key => h = g
                /\ Cardinality(LinesOfKey(key)) = (IF QtySum(key) > 0 THEN 1 ELSE 0)
                /\ \A p \in LinesOfKey(key) :
                      (/\ \E s \in DOMAIN successful_customers : successful_customers[s] = c
                       /\ ItemResolves(LineAt(p).product_code)) =>
                          /\ Cardinality(InvoicesOf(c)) = 1
                          /\ \A i \in InvoicesOf(c) :
                                /\ Cardinality(InvoiceLinesOf(i, p)) = 1
                                /\ \A n \in InvoiceLinesOf(i, p) :
                                      SalesInvoice[i].items[n].qty = QtySum(key)

C4_Witness ==
    /\ status = "success"
    /\ \E p \in Lines :
          /\ Cardinality(KeyRows(LineKey(p))) = 2
          /\ {RowQty[k] : k \in KeyRows(LineKey(p))} = {2 * Scale, 3 * Scale}
          /\ Cardinality(InvoicesOf(LineCustomer(p))) = 1
          /\ \A i \in InvoicesOf(LineCustomer(p)) :
                /\ Len(SalesInvoice[i].items) = 1
                /\ SalesInvoice[i].items[1].qty = 5 * Scale

AllRowsFiled == \A k \in DOMAIN rows : Filed(rows[k])

\* C6 as stated: when every row passes the per-row validation and no
\* customer or item lookup fails, total_licenses_before = total_licenses_after.
C6_EqualWhenAllResolve ==
    (status = "success" /\ AllRowsFiled /\ ~ LookupFailed)
        => total_licenses_before = total_licenses_after

NoInvoiceWithheld ==
    \A e \in DOMAIN customer_invoices :
        customer_invoices[e].items # <<>> =>
            \E s \in DOMAIN successful_customers :
                successful_customers[s] = customer_invoices[e].customer_ref_nr

\* C6, amended: when moreover no Licenses Count is negative and no customer's
\* invoice is withheld by the zero-amount suppression, the two totals are equal.
C6_EqualWhenAllInvoiced ==
    (/\ status = "success"
     /\ AllRowsFiled
     /\ ~ LookupFailed
     /\ \A k \in DOMAIN rows : RowQty[k] >= 0
     /\ NoInvoiceWithheld)
        => total_licenses_before = total_licenses_after

C6_Witness ==
    /\ status = "success"
    /\ AllRowsFiled
    /\ ~ LookupFailed
    /\ \A k \in DOMAIN rows : RowQty[k] >= 0
    /\ NoInvoiceWithheld
    /\ Len(successful_customers) = 2
    /\ Len(rows) = 3
    /\ total_licenses_before = total_licenses_after

\* C7: total_licenses_before is the sum of the absolute Licenses Count over
\* the rows that pass the per-row validation and are filed under a key.
C7_BeforeCountsFiledRows ==
    status = "success" =>
        total_licenses_before =
            SumOver({k \in DOMAIN rows : Filed(rows[k])}, RowAbsQty)

ItemsWithCode(item_code) == {i \in DOMAIN Item : Item[i].item_code = item_code}

\* the created_items_log that report r of the settings record shows
ReportLog(r) ==
    LET sections == SelectSeq(settings_doc.hornetsecurity_importergebnis[r],
                              LAMBDA x : x.line = "Neu erstellte Artikel:")
    IN  IF sections = <<>> THEN <<>> ELSE sections[1].value

\* the log entries about item n over all imports so far, as (report, position)
LogEntries(n) ==
    {q \in (DOMAIN settings_doc.hornetsecurity_importergebnis) \X (1..MaxRows + 1) :
        /\ q[2] \in DOMAIN ReportLog(q[1])
        /\ ReportLog(q[1])[q[2]].item = n}

Earlier(q1, q2) == q1[1] < q2[1] \/ (q1[1] = q2[1] /\ q1[2] < q2[2])

\* C8: over any number of OTHER rows with the same product name, in one
\* import and over successive imports, the catalog holds exactly one item
\* with that name as its code: the first resolved occurrence creates it and
\* every later one finds the existing item.
C8_OneItemPerOtherName ==
    \A n \in {N1, N2} :
        /\ Cardinality(ItemsWithCode(n)) <= 1
        /\ LogEntries(n) # {} => Cardinality(ItemsWithCode(n)) = 1
        /\ \A q \in LogEntries(n) :
              ReportLog(q[1])[q[2]].msg =
                  (IF \E q0 \in LogEntries(n) : Earlier(q0, q)
                   THEN "already exists" ELSE "Created new item")
        /\ status = "success" =>
              \A k \in DOMAIN rows :
                  (/\ Filed(rows[k]) /\ IsOtherCode(rows[k])
                   /\ CustomerResolves(Strip(rows[k].CustomerReferenceNumber))
                   /\ QtySum(RowKey(rows[k])) > 0)
                      => /\ Cardinality(ItemsWithCode(Strip(rows[k].Product))) = 1
                         /\ \E j \in DOMAIN created_items_log :
                               created_items_log[j].item = Strip(rows[k].Product)

C8_Witness ==
    /\ imports = 2
    /\ Cardinality(ItemsWithCode(N1)) = 1
    /\ Len(ReportLog(1)) = 2
    /\ ReportLog(1)[1] = [msg |-> "Created new item", item |-> N1]
    /\ ReportLog(1)[2] = [msg |-> "already exists", item |-> N1]
    /\ Len(created_items_log) >= 1
    /\ \A j \in DOMAIN created_items_log :
          created_items_log[j] = [msg |-> "already exists", item |-> N1]

ErrorsOf(customer_ref_nr) ==
    {e \in DOMAIN errors : errors[e].customer = customer_ref_nr}

OnlyLineIsZero(e) ==
    /\ Len(customer_invoices[e].items) = 1
    /\ customer_invoices[e].items[1].total_amount = 0

\* C9: with the suppression of zero-amount invoices switched on, a customer
\* whose only line has total_amount 0 gets no invoice, is not among the
\* successful customers and is not counted in invoices_created; when the
\* customer and the item resolve, the only errors about the customer are
\* those of the rows and of a missing tax account.
C9_ZeroAmountSuppressed ==
    (status = "success" /\ settings_doc.nullrechnungen_unterdruecken) =>
        /\ invoices_created = Len(SalesInvoice)
        /\ invoices_created = Len(successful_customers)
        /\ \A e \in DOMAIN customer_invoices :
              OnlyLineIsZero(e) =>
                  LET c == customer_invoices[e].customer_ref_nr IN
                  /\ \A s \in DOMAIN successful_customers : successful_customers[s] # c
                  /\ CustomerResolves(c) => InvoicesOf(c) = {}
                  /\ (CustomerResolves(c)
                        /\ ItemResolves(customer_invoices[e].items[1].product_code)) =>
                        \A x \in ErrorsOf(c) :
                            \/ errors[x].msg \in {MsgCurrencyMismatch, MsgAggregateException}
                            \/ /\ errors[x].msg = MsgNoTaxAccount
                               /\ settings_doc.tax_account = None

C9_Witness ==
    /\ status = "success"
    /\ settings_doc.nullrechnungen_unterdruecken
    /\ settings_doc.tax_account # None
    /\ invoices_created = 1
    /\ errors = <<>>
    /\ \E e \in DOMAIN customer_invoices :
          /\ OnlyLineIsZero(e)
          /\ CustomerResolves(customer_invoices[e].customer_ref_nr)
          /\ ItemResolves(customer_invoices[e].items[1].product_code)

\* the aggregated lines of entry e that the item resolver accepts
ResolvedLines(e) ==
    SelectSeq(customer_invoices[e].items, LAMBDA l : ItemResolves(l.product_code))

HasResolvedLines(e) ==
    /\ CustomerResolves(customer_invoices[e].customer_ref_nr)
    /\ ResolvedLines(e) # <<>>

HasNoTaxAccountError(customer_ref_nr) ==
    \E x \in ErrorsOf(customer_ref_nr) : errors[x].msg = MsgNoTaxAccount

\* the draft of entry e is withheld as a zero-amount invoice
WithheldAsZero(e) ==
    /\ settings_doc.nullrechnungen_unterdruecken
    /\ GrandTotal([n \in DOMAIN ResolvedLines(e) |->
                      [amount |-> ResolvedLines(e)[n].total_amount]],
                  get_customer_discount(
                      CustomersByReference(Customer,
                          customer_invoices[e].customer_ref_nr)[1].customer_name,
                      settings_doc.hornetsecurity_rabattwerte_je_kunde),
                  <<>>) = 0

\* C10 as stated: without a tax account every customer with resolved lines
\* still gets its invoice persisted, the error "No tax account configured
\* for customer" is recorded for it, and the invoice has no tax line.
C10_InvoiceWithoutTaxAccount ==
    (status = "success" /\ settings_doc.tax_account = None) =>
        \A e \in DOMAIN customer_invoices :
            HasResolvedLines(e) =>
                LET c == customer_invoices[e].customer_ref_nr IN
                /\ Cardinality(InvoicesOf(c)) = 1
                /\ HasNoTaxAccountError(c)
                /\ \A i \in InvoicesOf(c) : SalesInvoice[i].taxes = <<>>

\* C10, amended: the invoice is persisted unless the zero-amount suppression
\* withholds it; the error is recorded in both cases, and a persisted invoice
\* has no tax line.
C10_InvoiceUnlessSuppressed ==
    (status = "success" /\ settings_doc.tax_account = None) =>
        \A e \in DOMAIN customer_invoices :
            HasResolvedLines(e) =>
                LET c == customer_invoices[e].customer_ref_nr IN
                /\ Cardinality(InvoicesOf(c)) = (IF WithheldAsZero(e) THEN 0 ELSE 1)
                /\ HasNoTaxAccountError(c)
                /\ \A i \in InvoicesOf(c) : SalesInvoice[i].taxes = <<>>

C10_Witness ==
    /\ status = "success"
    /\ settings_doc.tax_account = None
    /\ Len(SalesInvoice) = 2
    /\ \A i \in DOMAIN SalesInvoice : SalesInvoice[i].taxes = <<>>
    /\ \A e \in DOMAIN customer_invoices :
          /\ HasResolvedLines(e)
          /\ HasNoTaxAccountError(customer_invoices[e].customer_ref_nr)

\* the entries of customer_invoices whose customer is the one of invoice i
EntriesOf(i) ==
    {e \in DOMAIN customer_invoices :
        /\ CustomerResolves(customer_invoices[e].customer_ref_nr)
        /\ i \in InvoicesOf(customer_invoices[e].customer_ref_nr)}

\* invoice i has exactly the resolved lines of entry e, in their order
CarriesResolvedLines(i, e) ==
    /\ Len(SalesInvoice[i].items) = Len(ResolvedLines(e))
    /\ \A n \in DOMAIN ResolvedLines(e) :
          /\ SalesInvoice[i].items[n].customer_item_code = ResolvedLines(e)[n].product_code
          /\ SalesInvoice[i].items[n].item_code = ResolvedCode(ResolvedLines(e)[n])
          /\ SalesInvoice[i].items[n].qty = ResolvedLines(e)[n].total_qty
          /\ SalesInvoice[i].items[n].rate = ResolvedLines(e)[n].rate
          /\ SalesInvoice[i].items[n].amount = ResolvedLines(e)[n].total_amount

C12_ErrorLeavesNothing ==
    (imports = 1 /\ status = "error") =>
        /\ SalesInvoice = <<>>
        /\ Item = <<CatalogItem(<<"I", "1">>, P1)>>
        /\ settings_doc.hornetsecurity_importhistorie = 0
        /\ settings_doc.hornetsecurity_importergebnis = <<>>

\* the customer references of the rows that are filed under a key
FiledCustomers ==
    {Strip(rows[k].CustomerReferenceNumber) : k \in {j \in DOMAIN rows : Filed(rows[j])}}

IsSuccessful(customer_ref_nr) ==
    \E s \in DOMAIN successful_customers : successful_customers[s] = customer_ref_nr

\* C13: one import persists at most one invoice per customer reference, and
\* only for a customer with at least one resolved line; invoices_created is
\* the number of persisted invoices and the length of successful_customers,
\* which has no duplicates and names exactly the customers with an invoice.
C13_OneInvoicePerCustomer ==
    status = "success" =>
        /\ invoices_created = Len(SalesInvoice)
        /\ invoices_created = Len(successful_customers)
        /\ \A s, t \in DOMAIN successful_customers :
              successful_customers[s] = successful_customers[t] => s = t
        /\ \A c \in FiledCustomers :
              CustomerResolves(c) =>
                  Cardinality(InvoicesOf(c)) = (IF IsSuccessful(c) THEN 1 ELSE 0)
        /\ \A s \in DOMAIN successful_customers :
              /\ successful_customers[s] \in FiledCustomers
              /\ CustomerResolves(successful_customers[s])
        /\ \A i \in DOMAIN SalesInvoice :
              /\ Cardinality(EntriesOf(i)) = 1
              /\ \A e \in EntriesOf(i) : HasResolvedLines(e)

\* two customers, one of them with rows under two keys, get one invoice each
C13_Witness ==
    /\ status = "success"
    /\ Len(rows) = 3
    /\ Len(customer_product_data) = 3
    /\ Len(customer_invoices) = 2
    /\ invoices_created = 2
    /\ Len(SalesInvoice) = 2
    /\ SalesInvoice[1].customer # SalesInvoice[2].customer
    /\ \E i \in DOMAIN SalesInvoice : Len(SalesInvoice[i].items) = 2

\* the product names of the OTHER rows of customer c that are filed
OtherNamesOf(c) ==
    {Strip(rows[k].Product) :
        k \in {j \in DOMAIN rows : /\ Filed(rows[j]) /\ IsOtherCode(rows[j])
                                   /\ Strip(rows[j].CustomerReferenceNumber) = c}}

CustomerNotFoundErrors(c) ==
    {x \in ErrorsOf(c) : errors[x].msg = MsgCustomerNotFound}

\* C14: a customer reference of the file that matches no customer record
\* leaves exactly one "Customer not found" error and no error of the item
\* resolver, gets no invoice, and no catalog item is created for its OTHER
\* lines; every other customer with resolved lines whose draft is not
\* withheld as a zero-amount invoice gets its invoice.
C14_OnlyThatCustomerRejected ==
    status = "success" =>
        /\ \A c \in FiledCustomers :
              ~ CustomerResolves(c) =>
                  /\ Cardinality(CustomerNotFoundErrors(c)) = 1
                  /\ \A x \in ErrorsOf(c) :
                        errors[x].msg \in {MsgCustomerNotFound, MsgCurrencyMismatch,
                                           MsgAggregateException}
                  /\ ~ IsSuccessful(c)
                  /\ \A i \in DOMAIN SalesInvoice : SalesInvoice[i].customer # c
                  /\ \A n \in OtherNamesOf(c) :
                        (\A d \in FiledCustomers : n \in OtherNamesOf(d) => ~ CustomerResolves(d))
                            => /\ ItemsWithCode(n) = {}
                               /\ \A j \in DOMAIN created_items_log :
                                     created_items_log[j].item # n
        /\ \A c \in FiledCustomers :
              CustomerResolves(c) => CustomerNotFoundErrors(c) = {}
        /\ \A e \in DOMAIN customer_invoices :
              (HasResolvedLines(e) /\ ~ WithheldAsZero(e)) =>
                  /\ IsSuccessful(customer_invoices[e].customer_ref_nr)
                  /\ Cardinality(InvoicesOf(customer_invoices[e].customer_ref_nr)) = 1

\* the first customer of the file is unknown and has an OTHER line; the
\* customers after it are invoiced, and no item was created for its line
C14_Witness ==
    /\ status = "success"
    /\ Len(customer_invoices) = 3
    /\ ~ CustomerResolves(customer_invoices[1].customer_ref_nr)
    /\ OtherNamesOf(customer_invoices[1].customer_ref_nr) = {N2}
    /\ ItemsWithCode(N2) = {}
    /\ Cardinality(CustomerNotFoundErrors(customer_invoices[1].customer_ref_nr)) = 1
    /\ Len(SalesInvoice) = 2
    /\ IsSuccessful(customer_invoices[2].customer_ref_nr)
    /\ IsSuccessful(customer_invoices[3].customer_ref_nr)

ItemNotFoundErrors(c, product_code) ==
    {x \in ErrorsOf(c) : /\ errors[x].msg = MsgItemNotFound
                         /\ errors[x].product = product_code}

\* the aggregated lines of a known customer whose product code is not OTHER
\* and is the external number of no catalog item
UnresolvedLines ==
    {p \in Lines : /\ CustomerResolves(LineCustomer(p))
                   /\ ~ ItemResolves(LineAt(p).product_code)}

\* C15 as stated: such a line leaves one "Item not found" error, and when
\* the customer has other lines that resolve, the invoice of the customer is
\* persisted with exactly these lines.
C15_ItemNotFoundSkipsLine ==
    status = "success" =>
        \A p \in UnresolvedLines :
            /\ Cardinality(ItemNotFoundErrors(LineCustomer(p), LineAt(p).product_code)) = 1
            /\ ResolvedLines(p[1]) # <<>> =>
                  /\ Cardinality(InvoicesOf(LineCustomer(p))) = 1
                  /\ \A i \in InvoicesOf(LineCustomer(p)) : CarriesResolvedLines(i, p[1])

\* C15, amended: the invoice with exactly the resolved lines is persisted
\* unless the draft is withheld as a zero-amount invoice; a customer none of
\* whose lines resolve gets no invoice and a "No valid items" error.
C15_ItemNotFoundSkipsLineOnly ==
    status = "success" =>
        \A p \in UnresolvedLines :
            /\ Cardinality(ItemNotFoundErrors(LineCustomer(p), LineAt(p).product_code)) = 1
            /\ ResolvedLines(p[1]) # <<>> =>
                  /\ Cardinality(InvoicesOf(LineCustomer(p))) =
                        (IF WithheldAsZero(p[1]) THEN 0 ELSE 1)
                  /\ \A i \in InvoicesOf(LineCustomer(p)) : CarriesResolvedLines(i, p[1])
            /\ ResolvedLines(p[1]) = <<>> =>
                  /\ InvoicesOf(LineCustomer(p)) = {}
                  /\ \E x \in ErrorsOf(LineCustomer(p)) : errors[x].msg = MsgNoValidItems

\* a customer with a resolved line before and after a line without catalog
\* item: the invoice has the two resolved lines
C15_Witness ==
    /\ status = "success"
    /\ \E p \in UnresolvedLines :
          /\ p[2] = 2
          /\ Len(customer_invoices[p[1]].items) = 3
          /\ Cardinality(InvoicesOf(LineCustomer(p))) = 1
          /\ \A i \in InvoicesOf(LineCustomer(p)) : Len(SalesInvoice[i].items) = 2
          /\ Cardinality(ItemNotFoundErrors(LineCustomer(p), LineAt(p).product_code)) = 1

\* the rate by strict precedence: a field that is present wins, whatever its
\* value; the display name and the default come after the two fields
PrecedenceRate(account) ==
    IF account.tax_rate # NoValue THEN account.tax_rate
    ELSE IF account.rate # NoValue THEN account.rate
    ELSE IF RateMatch(account.account_name) # None
    THEN flt(RateMatch(account.account_name))
    ELSE DefaultTaxRate

\* C16: the rate of the tax line of every invoice is the account's tax_rate
\* when that field is set (a rate of 0 included), else its rate field when
\* set, else the percentage in its display name, else 19.
C16_StrictPrecedence ==
    status = "success" =>
        \A i \in DOMAIN SalesInvoice :
            /\ Len(SalesInvoice[i].taxes) = 1
            /\ SalesInvoice[i].taxes[1].rate = PrecedenceRate(Account[1])

\* the selling rates recorded for invoice i's currency, the company currency
\* and the posting date, and those recorded for any date
RecordedForDate(i) ==
    {k \in DOMAIN CurrencyExchange :
        /\ CurrencyExchange[k].from_currency = SalesInvoice[i].currency
        /\ CurrencyExchange[k].to_currency = CompanyDefaultCurrency
        /\ CurrencyExchange[k].date = SalesInvoice[i].posting_date
        /\ CurrencyExchange[k].for_selling = 1}

RecordedForAnyDate(i) ==
    {k \in DOMAIN CurrencyExchange :
        /\ CurrencyExchange[k].from_currency = SalesInvoice[i].currency
        /\ CurrencyExchange[k].to_currency = CompanyDefaultCurrency
        /\ CurrencyExchange[k].for_selling = 1}

\* every customer with resolved lines whose draft is not withheld as a
\* zero-amount invoice has its invoice
NoInvoiceBlocked ==
    \A e \in DOMAIN customer_invoices :
        (HasResolvedLines(e) /\ ~ WithheldAsZero(e)) =>
            Cardinality(InvoicesOf(customer_invoices[e].customer_ref_nr)) = 1

C18_DiscardIsLogged ==
    status = "success" =>
        \A g \in DOMAIN customer_product_data :
            LET key == customer_product_data[g].key
                c == customer_product_data[g].customer_ref_nr
            IN  (QtySum(key) <= 0 /\ CustomerResolves(c)) =>
                    /\ LinesOfKey(key) = {}
                    /\ \E x \in ErrorsOf(c) : errors[x].msg = MsgNoValidItems

\* C19: without a configured item group the import still returns success,
\* and every filed row that is not an OTHER row, whose customer and item
\* resolve and whose key has a positive quantity, is invoiced (zero-amount
\* suppression aside).
C19_ItemGroupOnlyForOther ==
    (imports = 1 /\ settings_doc.artikelgruppe = None) =>
        /\ status = "success"
        /\ \A k \in DOMAIN rows :
              (/\ Filed(rows[k])
               /\ ~ IsOtherCode(rows[k])
               /\ CustomerResolves(Strip(rows[k].CustomerReferenceNumber))
               /\ ItemsByExternalNumber(Item, Strip(rows[k].ProductCode)) # <<>>
               /\ QtySum(RowKey(rows[k])) > 0
               /\ ~ settings_doc.nullrechnungen_unterdruecken)
                  => InvoicesOf(Strip(rows[k].CustomerReferenceNumber)) # {}

SuccessfulIn(p, c) ==
    \E s \in DOMAIN local[p].successful_customers :
        local[p].successful_customers[s] = c

ItemRefusedIn(p, c) ==
    \E x \in DOMAIN local[p].errors :
        /\ local[p].errors[x].msg = MsgItemCreateFailed
        /\ local[p].errors[x].customer = c

\* the log of invocation p has an entry for item n, and none of them says
\* that the item was found: its existence check for n found nothing
PassedCheck(p, n) ==
    /\ \E j \in DOMAIN local[p].created_items_log :
          local[p].created_items_log[j].item = n
    /\ \A j \in DOMAIN local[p].created_items_log :
          local[p].created_items_log[j].item = n
              => local[p].created_items_log[j].msg # "already exists"

\* C20: imports are not coordinated.  The invoices of a customer are as many
\* as the invocations that have invoiced the customer, one each and none
\* merged or withheld; and an invocation that has finished has invoiced
\* every known customer of its file with a line that resolves, whatever the
\* other invocation has persisted for that customer (unless the store
\* refused one of its item inserts).
C20_ImportsNotCoordinated ==
    /\ \A c \in {C1, C2} :
          Cardinality(InvoicesOf(c)) = Cardinality({p \in Procs : SuccessfulIn(p, c)})
    /\ \A p \in Procs :
          (phase[p] = "done" /\ local[p].status = "success") =>
              \A e \in DOMAIN local[p].customer_invoices :
                  LET c == local[p].customer_invoices[e].customer_ref_nr IN
                  (/\ CustomerResolves(c)
                   /\ ~ ItemRefusedIn(p, c)
                   /\ \E n \in DOMAIN local[p].customer_invoices[e].items :
                         ItemResolves(local[p].customer_invoices[e].items[n].product_code))
                      => SuccessfulIn(p, c)

\* both invocations were given the same file, both have finished, the
\* customer has two invoices, and both existence checks for the new OTHER
\* item found nothing: they were made before either insert
C20_Witness ==
    /\ \A p \in Procs : phase[p] = "done" /\ local[p].status = "success"
    /\ local["a"].rows = local["b"].rows
    /\ Len(local["a"].rows) = 2
    /\ Cardinality(InvoicesOf(C1)) = 2
    /\ \A p \in Procs : PassedCheck(p, N1)

\* the product identifier of a filed row: its product name when its product
\* code is OTHER, its product code otherwise
ProductIdentifier(row) ==
    IF IsOtherCode(row) THEN Strip(row.Product) ELSE Strip(row.ProductCode)

\* C21: the rows filed under one key, and so summed into one aggregate, all
\* have the same customer reference and the same product identifier.
C21_KeySeparatesRows ==
    status = "success" =>
        \A g \in DOMAIN customer_product_data :
            \A j, k \in DOMAIN customer_product_data[g].rows :
                LET r1 == customer_product_data[g].rows[j]
                    r2 == customer_product_data[g].rows[k]
                IN  /\ Strip(r1.CustomerReferenceNumber) = Strip(r2.CustomerReferenceNumber)
                    /\ ProductIdentifier(r1) = ProductIdentifier(r2)

\* the aggregated OTHER lines with product name n
OtherLinesNamed(n) ==
    {p \in Lines : /\ Upper(LineAt(p).product_code) = SentinelOther
                   /\ LineAt(p).product_name = n}

\* the keys of the file whose summed quantity is not positive
DroppedKeys ==
    {g \in DOMAIN customer_product_data : QtySum(customer_product_data[g].key) <= 0}

\* C22: no import records the "Invalid quantity" error of the item resolver:
\* every aggregated line, and so every line the resolver sees, has a positive
\* total_qty; every item the import creates or looks up for an OTHER line is
\* that of a line with positive quantity, and every invoice line has a
\* positive quantity.
C22_NoInvalidQuantity ==
    /\ \A x \in DOMAIN errors : errors[x].msg # MsgInvalidQuantity
    /\ status = "success" =>
          /\ \A p \in Lines : LineAt(p).total_qty > 0
          /\ Cardinality(Lines) <= Len(customer_product_data) - Cardinality(DroppedKeys)
          /\ \A j \in DOMAIN created_items_log :
                OtherLinesNamed(created_items_log[j].item) # {}
          /\ \A n \in DOMAIN Item :
                Item[n].custom_externe_artikelnummer = SentinelOther
                    => OtherLinesNamed(Item[n].item_code) # {}
          /\ \A i \in DOMAIN SalesInvoice :
                \A n \in DOMAIN SalesInvoice[i].items : SalesInvoice[i].items[n].qty > 0

\* an OTHER line of negative quantity is dropped and no item is made for it,
\* while the item of another OTHER line of the same file is created
C22_Witness ==
    /\ status = "success"
    /\ \E g \in DroppedKeys :
          /\ Upper(customer_product_data[g].product_code) = SentinelOther
          /\ CustomerResolves(customer_product_data[g].customer_ref_nr)
          /\ ItemsWithCode(Strip(customer_product_data[g].rows[1].Product)) = {}
    /\ \E j \in DOMAIN created_items_log : created_items_log[j].msg = "Created new item"
    /\ Len(SalesInvoice) = 1


\* the keys of the file whose aggregate is a line of invoice i: the key is of
\* the invoice's customer, its summed quantity is positive and the item
\* resolver accepts its product code
KeysOnInvoice(i) ==
    {g \in DOMAIN customer_product_data :
        /\ CustomerResolves(customer_product_data[g].customer_ref_nr)
        /\ i \in InvoicesOf(customer_product_data[g].customer_ref_nr)
        /\ QtySum(customer_product_data[g].key) > 0
        /\ ItemResolves(customer_product_data[g].product_code)}

HasCurrencyMismatchError(customer_ref_nr) ==
    \E x \in ErrorsOf(customer_ref_nr) : errors[x].msg = MsgCurrencyMismatch

\* C23: every line of a persisted invoice is aggregated from rows whose CSV
\* currency resolves to the currency of the invoice, or else a currency
\* mismatch error is recorded for the customer of the invoice.
C23_OneCurrencyPerInvoice ==
    status = "success" =>
        \A i \in DOMAIN SalesInvoice :
            \A g \in KeysOnInvoice(i) :
                \/ \A j \in DOMAIN customer_product_data[g].rows :
                      get_invoice_currency(customer_product_data[g].rows[j].Currency, Currency)
                          = SalesInvoice[i].currency
                \/ HasCurrencyMismatchError(customer_product_data[g].customer_ref_nr)

====
